---- MODULE Spec2Model ----
(***************************************************************************)
(* Model of the cloud-renderer webhook pipeline (src/app.py): source       *)
(* resolution (direct key, page resolver, Breeze API fallback), asset      *)
(* download, overlay download, ffmpeg composition, S3 upload with URL      *)
(* policy, ffprobe metadata and the optional Breeze post-back.             *)
(*                                                                         *)
(* Strings are sequences of tokens so that the string tests of the code    *)
(* (substring, suffix, rstrip, slicing) are computed, not assumed.         *)
(***************************************************************************)
EXTENDS Integers, Sequences, FiniteSets, TLC

VARIABLES
    cfg,          \* module-level configuration read from the environment
    payload,      \* decoded JSON body of the current request
    pc,           \* position of the webhook handler
    mp4_url,      \* webhook local: resolved source URL (a Val)
    res,          \* frame of resolve_mp4_from_page
    tmp,          \* the TemporaryDirectory of the job
    overlay,      \* webhook local: overlay path or none
    processed_url,\* webhook local: URL returned by s3_upload
    meta,         \* webhook local: result of ffprobe_meta
    outcome,      \* HTTP response of the webhook
    obs,          \* observations of the calls the job made
    html,         \* argument of the last _scrape_mp4_from_html call
    scraped,      \* result of the last _scrape_mp4_from_html call
    jobs,         \* concurrent requests: each one's position and locals
    fs,           \* directories and files of the process's temp area
    obtained      \* overlay downloads completed by the process so far

\* the state of the requests served side by side
jvars == <<jobs, fs, obtained>>

vars == <<cfg, payload, pc, mp4_url, res, tmp, overlay, processed_url, meta,
          outcome, obs, html, scraped, jvars>>

----------------------------------------------------------------------------
(* Bounds of the model *)

MaxTries == 2       \* largest RESOLVE_TRIES explored
MaxPageLen == 3     \* longest HTML document (in elements) explored
NJobs == 2          \* requests served side by side

----------------------------------------------------------------------------
(* Values: None, strings (token sequences) and other JSON scalars *)

None == [t |-> "none", v |-> <<>>]
Str(s) == [t |-> "str", v |-> s]
Num == [t |-> "int", v |-> <<>>]

\* isinstance(x, str)
IsStr(x) == x.t = "str"

\* Python truthiness of a value: None and "" are falsy, any other string is
\* truthy (the only non-string scalar explored is a non-zero number)
Truthy(x) == \/ x.t = "str" /\ x.v # <<>>
             \/ x.t = "int"

\* `tok in s` for a token
Contains(s, tok) == \E i \in 1..Len(s) : s[i] = tok

\* str.lower(), token by token
LowerTok(tok) == IF tok = ".MP4" THEN ".mp4" ELSE tok
Lower(s) == [i \in 1..Len(s) |-> LowerTok(s[i])]

\* str.endswith(tok)
EndsWith(s, tok) == Len(s) > 0 /\ s[Len(s)] = tok

\* str.rstrip("/")
RECURSIVE RStripSlash(_)
RStripSlash(s) ==
    IF Len(s) > 0 /\ s[Len(s)] = "/" THEN RStripSlash(SubSeq(s, 1, Len(s) - 1))
    ELSE s

\* s[:-len(tok)] for a one-token suffix
DropLast(s) == SubSeq(s, 1, Len(s) - 1)

----------------------------------------------------------------------------
(* The URLs explored *)

DirectMp4 == <<"https://", "cdn.example/", "direct", ".mp4">>
MediaMp4  == <<"https://", "cdn.example/", "clip", ".mp4">>
PageLoc   == <<"https://", "site.example/", "share", "/location", "/">>
PagePlain == <<"https://", "site.example/", "page">>
ImagePage == <<"https://", "site.example/", "image">>
UrlMp4    == <<"https://", "cdn.example/", "generic", ".mp4">>
NestedMp4 == <<"https://", "cdn.example/", "nested", ".mp4">>
Redirected == <<"https://", "edge.example/", "clip", ".MP4">>
ApiMp4    == <<"https://", "api.example/", "asset", ".mp4">>

----------------------------------------------------------------------------
(* HTML documents: token sequences rendered from a few element shapes *)

DQ == "\""
SQ == "'"

SrcUrl  == <<"https://", "v.example/", "video", ".mp4">>
HrefUrl == <<"https://", "v.example/", "link", ".mp4">>
OgUrl   == <<"https://", "v.example/", "og", ".mp4">>
RawUrl  == <<"https://", "v.example/", "raw", ".mp4">>
JsonUrl == <<"https://", "v.example/", "it", SQ, "s", ".mp4">>

ElemKinds == {"src", "href", "og", "raw", "json", "text"}

Render(kind) ==
    CASE kind = "src"  -> <<"<video ", "src=", DQ>> \o SrcUrl \o <<DQ, ">">>
      [] kind = "href" -> <<"<a ", "href=", DQ>> \o HrefUrl \o <<DQ, ">">>
      [] kind = "og"   -> <<"<meta ", "property=", DQ, "og:video", DQ, " ",
                            "content=", DQ>> \o OgUrl \o <<DQ, ">">>
      [] kind = "raw"  -> <<"<p>">> \o RawUrl \o <<"</p>">>
      [] kind = "json" -> <<"{", DQ, "file", DQ, ":", DQ>> \o JsonUrl \o <<DQ, "}">>
      [] OTHER         -> <<"<p>", "hello", "</p>">>

RECURSIVE RenderAll(_)
RenderAll(kinds) ==
    IF kinds = <<>> THEN <<>>
    ELSE Render(Head(kinds)) \o RenderAll(Tail(kinds))

KindSeqs == UNION {[1..n -> ElemKinds] : n \in 0..MaxPageLen}
Pages == {RenderAll(ks) : ks \in KindSeqs}

----------------------------------------------------------------------------
(* The regular expressions of the scraper, on tokens *)

IsScheme(tok) == LowerTok(tok) \in {"https://", "http://"}
IsMp4(tok) == LowerTok(tok) = ".mp4"
IsQuote(tok) == tok \in {DQ, SQ}

\* first position after i holding a token of `stops`, Len(d)+1 when none
StopAfter(d, i, stops) ==
    IF \E q \in (i+1)..Len(d) : d[q] \in stops
    THEN CHOOSE q \in (i+1)..Len(d) :
            /\ d[q] \in stops
            /\ \A r \in (i+1)..(q-1) : d[r] \notin stops
    ELSE Len(d) + 1

\* https?://[^stops]+\.mp4[^stops]* matches at position i (greedy: the match
\* runs up to the next stop character)
BodyAt(d, i, stops) ==
    /\ i \in 1..Len(d)
    /\ IsScheme(d[i])
    /\ \E j \in (i+2)..(StopAfter(d, i, stops) - 1) : IsMp4(d[j])

BodyText(d, i, stops) == SubSeq(d, i, StopAfter(d, i, stops) - 1)

\* MP4_RE = https?://[^"']+\.mp4[^"']*  (re.I), findall from position k
RECURSIVE MP4_RE_findall(_, _)
MP4_RE_findall(d, k) ==
    IF \E i \in k..Len(d) : BodyAt(d, i, {DQ, SQ})
    THEN LET i == CHOOSE i \in k..Len(d) :
                    /\ BodyAt(d, i, {DQ, SQ})
                    /\ \A r \in k..(i-1) : ~BodyAt(d, r, {DQ, SQ})
         IN  <<BodyText(d, i, {DQ, SQ})>>
                \o MP4_RE_findall(d, StopAfter(d, i, {DQ, SQ}))
    ELSE <<>>

\* src=["'](https?://[^"']+\.mp4[^"']*)
SrcAt(d, p) ==
    /\ p + 2 <= Len(d)
    /\ d[p] = "src="
    /\ IsQuote(d[p+1])
    /\ BodyAt(d, p + 2, {DQ, SQ})

RECURSIVE SrcFindall(_, _)
SrcFindall(d, k) ==
    IF \E p \in k..Len(d) : SrcAt(d, p)
    THEN LET p == CHOOSE p \in k..Len(d) :
                    SrcAt(d, p) /\ \A r \in k..(p-1) : ~SrcAt(d, r)
         IN  <<BodyText(d, p + 2, {DQ, SQ})>>
                \o SrcFindall(d, StopAfter(d, p + 2, {DQ, SQ}))
    ELSE <<>>

\* property=["']og:video["']\s+content=["'](https?://[^"']+\.mp4[^"']*)
OgAt(d, p) ==
    /\ p + 7 <= Len(d)
    /\ d[p] = "property="
    /\ IsQuote(d[p+1])
    /\ d[p+2] = "og:video"
    /\ IsQuote(d[p+3])
    /\ d[p+4] = " "
    /\ d[p+5] = "content="
    /\ IsQuote(d[p+6])
    /\ BodyAt(d, p + 7, {DQ, SQ})

RECURSIVE OgFindall(_, _)
OgFindall(d, k) ==
    IF \E p \in k..Len(d) : OgAt(d, p)
    THEN LET p == CHOOSE p \in k..Len(d) :
                    OgAt(d, p) /\ \A r \in k..(p-1) : ~OgAt(d, r)
         IN  <<BodyText(d, p + 7, {DQ, SQ})>>
                \o OgFindall(d, StopAfter(d, p + 7, {DQ, SQ}))
    ELSE <<>>

\* "(https?://[^"]+\.mp4[^"]*)"  : a double-quoted string, closing quote needed
JsonAt(d, p) ==
    /\ p + 1 <= Len(d)
    /\ d[p] = DQ
    /\ BodyAt(d, p + 1, {DQ})
    /\ StopAfter(d, p + 1, {DQ}) <= Len(d)

RECURSIVE JsonFindall(_, _)
JsonFindall(d, k) ==
    IF \E p \in k..Len(d) : JsonAt(d, p)
    THEN LET p == CHOOSE p \in k..Len(d) :
                    JsonAt(d, p) /\ \A r \in k..(p-1) : ~JsonAt(d, r)
         IN  <<BodyText(d, p + 1, {DQ})>>
                \o JsonFindall(d, StopAfter(d, p + 1, {DQ}) + 1)
    ELSE <<>>

\* _scrape_mp4_from_html: the candidates of the four scans, concatenated in
\* the order the code runs them; the first candidate is returned
Candidates(d) ==
    MP4_RE_findall(d, 1) \o SrcFindall(d, 1) \o OgFindall(d, 1) \o JsonFindall(d, 1)

scrape_mp4_from_html(d) ==
    IF Candidates(d) # <<>> THEN Str(Candidates(d)[1]) ELSE None

----------------------------------------------------------------------------
(* Configuration (module level, read once from the environment) *)

NoOverlayKey == <<>>
OverlayKey == <<"overlays/", "frame.mov">>
\* an overlay object named like the downloaded source
OverlayKeySource == <<"overlays/", "source.mp4">>

NoTemplate == <<>>
GoodTemplate == <<"https://", "api.example/", "sessions/", "{session_id}", "/assets">>
BadTemplate == <<"https://", "api.example/", "events/", "{event_id}", "/assets">>

Configs ==
    [ MAKE_PUBLIC : BOOLEAN,
      PRESIGN_TTL : {-1, 0, 43200},
      POST_BACK_TO_BREEZE : BOOLEAN,
      BREEZE_UPLOAD_URL : {"", "https://breeze.example/api/uploads/by-url"},
      BREEZE_API_KEY : {"", "secret"},
      BREEZE_ASSETS_URL_TEMPLATE : {NoTemplate, GoodTemplate, BadTemplate},
      OVERLAY_S3_KEY : {NoOverlayKey, OverlayKey} ]
    \cup
    { [ MAKE_PUBLIC |-> FALSE, PRESIGN_TTL |-> 43200, POST_BACK_TO_BREEZE |-> FALSE,
        BREEZE_UPLOAD_URL |-> "", BREEZE_API_KEY |-> "",
        BREEZE_ASSETS_URL_TEMPLATE |-> NoTemplate,
        OVERLAY_S3_KEY |-> OverlayKeySource ] }

\* the values the code takes when the environment sets nothing
DefaultConfig ==
    [ MAKE_PUBLIC |-> FALSE, PRESIGN_TTL |-> 43200, POST_BACK_TO_BREEZE |-> FALSE,
      BREEZE_UPLOAD_URL |-> "", BREEZE_API_KEY |-> "",
      BREEZE_ASSETS_URL_TEMPLATE |-> NoTemplate, OVERLAY_S3_KEY |-> NoOverlayKey ]

\* RESOLVE_TRIES (6 unless set in the environment): explored at the bound
RESOLVE_TRIES == MaxTries

----------------------------------------------------------------------------
(* Payloads: a JSON object; an absent key reads as None with .get() *)

\* {"data": {"items": [{"file": "https://cdn.example/nested.mp4"}]}}
Nested3 == << [items |-> << [file |-> Str(NestedMp4)] >>] >>

AllPayloads ==
    [ id : {None, Str(<<"abc123">>), Str(<<>>)},
      eventkitesessionid : {None, Str(<<"sess1">>), Str(<<>>)},
      mp4_url : {None, Str(DirectMp4), Num},
      media_url : {None, Str(MediaMp4), Str(PageLoc), Str(PagePlain)},
      image_url : {None, Str(ImagePage)},
      url : {None, Str(UrlMp4)},
      data : {<<>>, Nested3} ]

\* the keys of a payload that may carry a source
SourceKeys(p) ==
    {k \in {"mp4_url", "media_url", "image_url", "url"} : p[k] # None}
        \cup (IF p.data # <<>> THEN {"data"} ELSE {})

\* the payloads explored: at most one source key, or two of the keys the
\* webhook reads; an empty id or session id comes with a direct mp4_url
Payloads ==
    {p \in AllPayloads :
        /\ \/ Cardinality(SourceKeys(p)) <= 1
           \/ /\ Cardinality(SourceKeys(p)) = 2
              /\ SourceKeys(p) \subseteq {"mp4_url", "media_url", "image_url"}
              /\ p.id = None
        /\ (p.id = Str(<<>>) \/ p.eventkitesessionid = Str(<<>>)) =>
                SourceKeys(p) = {"mp4_url"} /\ p.mp4_url = Str(DirectMp4)}

----------------------------------------------------------------------------
(* Initial state: the process is up, no request received yet *)

NoRes == [url |-> <<>>, attempt |-> 0, stage |-> "idle", ret |-> "none",
          fetches |-> 0, inAttempt |-> 0, sleeps |-> 0, hits |-> 0,
          lastSleepAt |-> 0, result |-> None, returned |-> FALSE]

NoObs == [dl |-> 0, dlUrl |-> None, dlFail |-> 0, ovl |-> 0, enc |-> 0,
          up |-> 0, acl |-> "none", cb |-> 0, vendor |-> 0, probe |-> 0,
          page |-> None, api |-> None, failed |-> "none",
          cbCode |-> 0, probeRun |-> "none", upKey |-> <<>>,
          encCode |-> -1]

NoTmp == [created |-> FALSE, exists |-> FALSE, files |-> {}]

\* the empty dict {} returned by ffprobe_meta
EmptyMeta == [empty |-> TRUE, width |-> "absent", height |-> "absent", fps |-> "absent"]

NoHtml == [kinds |-> <<>>, text |-> <<>>]

\* a request not yet in the with block
NoJob == [pc |-> "idle", dir |-> 0, overlay |-> None, fetches |-> 0,
          afterObtained |-> FALSE, read |-> "none"]

NoJobs == [j \in 1..NJobs |-> NoJob]

NoFs == [dirs |-> {}, files |-> {}]

NoOutcome == [code |-> 0, status |-> "none", reason |-> "none",
              processed_url |-> <<>>, breeze |-> "none"]

Init ==
    /\ cfg \in Configs
    /\ payload = [id |-> None, eventkitesessionid |-> None, mp4_url |-> None,
                  media_url |-> None, image_url |-> None, url |-> None,
                  data |-> <<>>]
    /\ pc = "idle"
    /\ mp4_url = None
    /\ res = NoRes
    /\ tmp = NoTmp
    /\ overlay = None
    /\ processed_url = <<>>
    /\ meta = EmptyMeta
    /\ outcome = NoOutcome
    /\ obs = NoObs
    /\ html = NoHtml
    /\ scraped = None
    /\ jobs = NoJobs /\ fs = NoFs /\ obtained = 0

----------------------------------------------------------------------------
(* webhook: receipt of the request and the direct key *)

\* x or y
Or(x, y) == IF Truthy(x) THEN x ELSE y

\* variant: the session id looked at before the id
UidSessionFirst(p) == Or(Or(p.eventkitesessionid, p.id), Str(<<"1700000000">>))

\* uid = payload.get("id") or payload.get("eventkitesessionid") or str(int(time.time()))
Uid(p) == Or(Or(p.id, p.eventkitesessionid), Str(<<"1700000000">>))

\* webhook, "1) direct mp4 url provided?"
DirectKey(p) ==
    IF IsStr(p.mp4_url) /\ Contains(p.mp4_url.v, ".mp4") THEN p.mp4_url ELSE None

Receive ==
    /\ pc = "idle"
    /\ \E p \in Payloads :
        /\ payload' = p
        /\ mp4_url' = DirectKey(p)
    /\ pc' = "page_media"
    /\ UNCHANGED <<cfg, res, obs, tmp, overlay, processed_url, meta, outcome, html, scraped, jvars>>

----------------------------------------------------------------------------
(* resolve_mp4_from_page *)

\* what requests.get + raise_for_status can give for a page URL u: an
\* exception (network error or HTTP error status), or a response with its
\* final URL (u itself, or the target of a redirect) and its body
ServedPages == {RenderAll(<<>>), RenderAll(<<"text">>), RenderAll(<<"og">>),
                RenderAll(<<"og", "src">>)}

Responses(u) ==
    {[exc |-> TRUE, url |-> <<>>, text |-> <<>>]} \cup
    [exc : {FALSE}, url : {u, Redirected}, text : ServedPages]

\* try_once, given the response of _fetch
try_once(r) ==
    IF EndsWith(Lower(r.url), ".mp4") THEN Str(r.url)
    ELSE scrape_mp4_from_html(r.text)

\* url.rstrip("/").endswith("/location")
HasLocationSuffix(u) == EndsWith(RStripSlash(u), "/location")

\* url.rstrip("/")[:-len("/location")]
StripLocation(u) == DropLast(RStripSlash(u))

\* entry of resolve_mp4_from_page(url): first pass of the loop (tries >= 1)
EnterResolve(u, ret) ==
    [NoRes EXCEPT !.url = u, !.ret = ret, !.attempt = 1, !.stage = "orig"]

\* the function returns `hit` to the webhook, which assigns it to mp4_url
ResolveReturn(r, hit) ==
    /\ res' = [r EXCEPT !.stage = "idle", !.result = hit, !.returned = TRUE]
    /\ mp4_url' = hit
    /\ obs' = [obs EXCEPT !.page = IF Truthy(hit) THEN hit ELSE obs.page]
    /\ pc' = r.ret

\* variant: one pass too many (range(1, tries + 2))
EndAttemptOffByOne(r) ==
    IF r.attempt < RESOLVE_TRIES + 1
    THEN /\ res' = [r EXCEPT !.stage = "sleep"]
         /\ UNCHANGED <<mp4_url, obs, pc>>
    ELSE ResolveReturn(r, None)

\* end of one pass of the loop body without a hit: sleep if attempts remain,
\* else fall out of the loop and return None
EndAttempt(r) ==
    IF r.attempt < RESOLVE_TRIES
    THEN /\ res' = [r EXCEPT !.stage = "sleep"]
         /\ UNCHANGED <<mp4_url, obs, pc>>
    ELSE ResolveReturn(r, None)

\* hit = try_once(url)
ResolveTryOrig ==
    /\ pc = "resolve" /\ res.stage = "orig"
    /\ \E r \in Responses(res.url) :
        LET fr == [res EXCEPT !.fetches = @ + 1, !.inAttempt = 1] IN
        IF r.exc THEN EndAttempt(fr)
        ELSE IF Truthy(try_once(r))
             THEN ResolveReturn([fr EXCEPT !.hits = @ + 1], try_once(r))
        ELSE IF HasLocationSuffix(res.url)
             THEN /\ res' = [fr EXCEPT !.stage = "alt"]
                  /\ UNCHANGED <<mp4_url, obs, pc>>
        ELSE EndAttempt(fr)
    /\ UNCHANGED <<cfg, payload, tmp, overlay, processed_url, meta, outcome, html, scraped, jvars>>

\* hit = try_once(alt)
ResolveTryAlt ==
    /\ pc = "resolve" /\ res.stage = "alt"
    /\ \E r \in Responses(StripLocation(res.url)) :
        LET fr == [res EXCEPT !.fetches = @ + 1, !.inAttempt = @ + 1] IN
        IF r.exc THEN EndAttempt(fr)
        ELSE IF Truthy(try_once(r))
             THEN ResolveReturn([fr EXCEPT !.hits = @ + 1], try_once(r))
        ELSE EndAttempt(fr)
    /\ UNCHANGED <<cfg, payload, tmp, overlay, processed_url, meta, outcome, html, scraped, jvars>>

\* time.sleep(sleep_sec), then the next pass of the loop
ResolveSleep ==
    /\ pc = "resolve" /\ res.stage = "sleep"
    /\ res' = [res EXCEPT !.stage = "orig", !.sleeps = @ + 1,
                          !.lastSleepAt = res.attempt,
                          !.attempt = @ + 1, !.inAttempt = 0]
    /\ UNCHANGED <<cfg, payload, pc, mp4_url, tmp, overlay, processed_url, meta,
                   outcome, obs, html, scraped, jvars>>

\* webhook, "2) try page URLs": media_url
PageMedia ==
    /\ pc = "page_media"
    /\ IF ~Truthy(mp4_url) /\ IsStr(payload.media_url)
       THEN /\ res' = EnterResolve(payload.media_url.v, "page_image")
            /\ pc' = "resolve"
       ELSE /\ pc' = "page_image"
            /\ res' = NoRes
    /\ UNCHANGED <<cfg, payload, mp4_url, tmp, overlay, processed_url, meta,
                   outcome, obs, html, scraped, jvars>>

\* webhook, "2) try page URLs": image_url
PageImage ==
    /\ pc = "page_image"
    /\ IF ~Truthy(mp4_url) /\ IsStr(payload.image_url)
       THEN /\ res' = EnterResolve(payload.image_url.v, "vendor")
            /\ pc' = "resolve"
       ELSE /\ pc' = "vendor"
            /\ res' = NoRes
    /\ UNCHANGED <<cfg, payload, mp4_url, tmp, overlay, processed_url, meta,
                   outcome, obs, html, scraped, jvars>>

----------------------------------------------------------------------------
(* breeze_api_find_mp4 *)

\* JSON values of the response: strings, lists and objects with the keys the
\* walker looks at (url, href, mime) followed by any other keys (kids)
JStr(x) == [kind |-> "str", s |-> x, url |-> None, href |-> None, mime |-> None,
            kids |-> <<>>]
JList(ks) == [kind |-> "list", s |-> <<>>, url |-> None, href |-> None,
              mime |-> None, kids |-> ks]
JDict(u, h, m, ks) == [kind |-> "dict", s |-> <<>>, url |-> u, href |-> h,
                       mime |-> m, kids |-> ks]

\* u.lower().endswith(".mp4") for a string value
StrEndsMp4(x) == IsStr(x) /\ EndsWith(Lower(x.v), ".mp4")

\* "mp4" in str(m).lower()
MimeHasMp4(m) == IsStr(m) /\ Contains(Lower(m.v), "mp4")

\* first truthy result of a sequence of results (the walker stops at the
\* first assignment to the nonlocal mp4)
RECURSIVE FirstFound(_)
FirstFound(rs) ==
    IF rs = <<>> THEN None
    ELSE IF Truthy(Head(rs)) THEN Head(rs)
    ELSE FirstFound(Tail(rs))

\* walk(obj), returning the value mp4 has after the walk
RECURSIVE walk(_)
walk(obj) ==
    CASE obj.kind = "dict" ->
            LET u == Or(obj.url, obj.href)
                m == obj.mime
            IN  IF Truthy(u) /\ StrEndsMp4(u) THEN u
                ELSE IF Truthy(m) /\ MimeHasMp4(m) /\ Truthy(u) THEN u
                ELSE FirstFound(
                        << IF StrEndsMp4(obj.url) THEN obj.url ELSE None,
                           IF StrEndsMp4(obj.href) THEN obj.href ELSE None,
                           IF StrEndsMp4(obj.mime) THEN obj.mime ELSE None >>
                        \o [i \in 1..Len(obj.kids) |-> walk(obj.kids[i])])
      [] obj.kind = "list" ->
            FirstFound([i \in 1..Len(obj.kids) |-> walk(obj.kids[i])])
      [] OTHER ->
            IF EndsWith(Lower(obj.s), ".mp4") THEN Str(obj.s) ELSE None

\* the text of a JSON value
SerVal(key, x) ==
    IF x.t = "none" THEN <<>>
    ELSE IF x.t = "str" THEN <<DQ, key, DQ, ":", DQ>> \o x.v \o <<DQ, ",">>
    ELSE <<DQ, key, DQ, ":", "42", ",">>

RECURSIVE Serialize(_)
RECURSIVE SerializeAll(_)
Serialize(obj) ==
    CASE obj.kind = "dict" ->
            <<"{">> \o SerVal("url", obj.url) \o SerVal("href", obj.href)
                \o SerVal("mime", obj.mime)
                \o (IF obj.kids = <<>> THEN <<>>
                    ELSE <<DQ, "assets", DQ, ":">> \o SerializeAll(obj.kids))
                \o <<"}">>
      [] obj.kind = "list" -> <<"[">> \o SerializeAll(obj.kids) \o <<"]">>
      [] OTHER -> <<DQ>> \o obj.s \o <<DQ>>
SerializeAll(ks) ==
    IF ks = <<>> THEN <<>> ELSE Serialize(Head(ks)) \o SerializeAll(Tail(ks))

ApiMp4Signed == ApiMp4 \o <<"?sig=1">>
VideoMime == <<"video/", "mp4">>

\* response bodies of the assets endpoint: r.json() succeeds or raises
JsonBodies ==
    { JDict(None, None, None, <<>>),
      JDict(None, None, None,
            << JList(<< JDict(Str(ApiMp4), None, Str(VideoMime), <<>>) >>) >>),
      JDict(None, None, None,
            << JList(<< JDict(Str(ApiMp4Signed), None, None, <<>>) >>) >>),
      JDict(None, None, None,
            << JList(<< JDict(None, Str(ApiMp4Signed), Str(VideoMime), <<>>) >>) >>),
      JList(<< JStr(ApiMp4) >>) }

TextBodies == { <<"<html>", "maintenance", "</html>">>,
                <<"asset: ">> \o ApiMp4 \o <<" ok">> }

\* MP4_RE.search(text): the first match, or None
MP4_RE_search(text) ==
    IF MP4_RE_findall(text, 1) # <<>> THEN Str(MP4_RE_findall(text, 1)[1]) ELSE None

\* the body of the try block once the response arrived without error
FindInJson(tree) == Or(walk(tree), MP4_RE_search(Serialize(tree)))
FindInText(text) == MP4_RE_search(text)

\* variant: the session id is not looked at
LookupConfiguredNoSession(c, session_id) ==
    /\ c.BREEZE_ASSETS_URL_TEMPLATE # <<>>
    /\ c.BREEZE_API_KEY # ""

\* not (BREEZE_ASSETS_URL_TEMPLATE and BREEZE_API_KEY and session_id)
LookupConfigured(c, session_id) ==
    /\ c.BREEZE_ASSETS_URL_TEMPLATE # <<>>
    /\ c.BREEZE_API_KEY # ""
    /\ Truthy(session_id)

\* str.format(session_id=..., gallery_id=...) raises KeyError on any other
\* replacement field
FormatRaises(tpl) ==
    \E i \in 1..Len(tpl) : tpl[i] \in {"{event_id}"}

\* the results breeze_api_find_mp4 can return once the request is issued
LookupResults ==
    {None} \cup {FindInJson(b) : b \in JsonBodies} \cup {FindInText(b) : b \in TextBodies}

----------------------------------------------------------------------------
(* webhook: API fallback, the "ignored" answer, and the work in the
   temporary directory *)

\* an exception leaves webhook: Flask answers 500 with its generic error
\* page; there is no JSON body, hence no status and no reason
Unhandled == [NoOutcome EXCEPT !.code = 500]

\* jsonify({"status": "ignored", "reason": "no_mp4"}), 200
Ignored == [NoOutcome EXCEPT !.code = 200, !.status = "ignored", !.reason = "no_mp4"]

\* src = os.path.join(tmp, "source.mp4"), as a name inside the directory
SourceName == <<"source.mp4">>

\* out = os.path.join(tmp, f"{uid}_final.mp4"), as a name inside the directory
OutName(p) == Uid(p).v \o <<"_final.mp4">>

\* a file of the directory is written (created or overwritten) by `by`
WriteFile(t, name, by) ==
    [t EXCEPT !.files = {f \in @ : f.name # name} \cup {[name |-> name, by |-> by]}]

\* variant: the directory is removed on the normal path only
ExitTmpOnSuccessOnly(t, byException) ==
    IF byException THEN t ELSE [t EXCEPT !.exists = FALSE, !.files = {}]

\* leaving the `with tempfile.TemporaryDirectory()` block, normally or by an
\* exception: the directory and its files are removed
ExitTmp(t, byException) == [t EXCEPT !.exists = FALSE, !.files = {}]

\* an exception raised by step `step` inside the with block
Raise(step) ==
    /\ tmp' = ExitTmp(tmp, TRUE)
    /\ outcome' = Unhandled
    /\ pc' = "done"

\* webhook, "3) Breeze API fallback by session id"
Vendor ==
    /\ pc = "vendor"
    /\ IF Truthy(mp4_url)
       THEN /\ pc' = "check"
            /\ UNCHANGED <<mp4_url, obs, outcome>>
       ELSE IF ~LookupConfigured(cfg, payload.eventkitesessionid)
       THEN /\ pc' = "check"
            /\ mp4_url' = None
            /\ UNCHANGED <<obs, outcome>>
       ELSE IF FormatRaises(cfg.BREEZE_ASSETS_URL_TEMPLATE)
       THEN /\ pc' = "done"
            /\ outcome' = Unhandled
            /\ obs' = [obs EXCEPT !.failed = "lookup"]
            /\ UNCHANGED mp4_url
       ELSE \E r \in LookupResults :
            /\ pc' = "check"
            /\ mp4_url' = r
            /\ obs' = [obs EXCEPT !.vendor = @ + 1, !.api = r]
            /\ UNCHANGED outcome
    /\ res' = NoRes
    /\ UNCHANGED <<cfg, payload, tmp, overlay, processed_url, meta, html, scraped, jvars>>

\* `if not mp4_url: return ignored`, else enter the temporary directory
Check ==
    /\ pc = "check"
    /\ IF ~Truthy(mp4_url)
       THEN /\ outcome' = Ignored
            /\ pc' = "done"
            /\ UNCHANGED tmp
       ELSE /\ tmp' = [created |-> TRUE, exists |-> TRUE, files |-> {}]
            /\ pc' = "download"
            /\ UNCHANGED outcome
    /\ UNCHANGED <<cfg, payload, mp4_url, res, overlay, processed_url, meta, obs,
                   html, scraped, jvars>>

\* _download(mp4_url, src): one GET, raise_for_status, stream to the file
Download ==
    /\ pc = "download"
    /\ \E ok \in BOOLEAN :
        IF ok
        THEN /\ tmp' = WriteFile(tmp, SourceName, "asset")
             /\ obs' = [obs EXCEPT !.dl = @ + 1, !.dlUrl = mp4_url]
             /\ pc' = "overlay"
             /\ UNCHANGED outcome
        ELSE /\ obs' = [obs EXCEPT !.dl = @ + 1, !.dlUrl = mp4_url,
                                   !.dlFail = @ + 1, !.failed = "download"]
             /\ Raise("download")
    /\ UNCHANGED <<cfg, payload, mp4_url, res, overlay, processed_url, meta,
                   html, scraped, jvars>>

\* os.path.basename(OVERLAY_S3_KEY): what follows the last "/"
RECURSIVE Basename(_)
Basename(key) ==
    IF key = <<>> \/ key[Len(key)] \in {"/", "overlays/"} THEN <<>>
    ELSE Basename(DropLast(key)) \o <<key[Len(key)]>>

\* maybe_download_overlay(tmp)
Overlay ==
    /\ pc = "overlay"
    /\ IF cfg.OVERLAY_S3_KEY = <<>>
       THEN /\ overlay' = None
            /\ pc' = "compose"
            /\ UNCHANGED <<tmp, obs, outcome>>
       ELSE \E r \in {"ok", "client_error", "other_error"} :
            CASE r = "ok" ->
                    /\ overlay' = Str(Basename(cfg.OVERLAY_S3_KEY))
                    /\ tmp' = WriteFile(tmp, Basename(cfg.OVERLAY_S3_KEY), "overlay")
                    /\ obs' = [obs EXCEPT !.ovl = @ + 1]
                    /\ pc' = "compose"
                    /\ UNCHANGED outcome
              [] r = "client_error" ->
                    /\ overlay' = None
                    /\ obs' = [obs EXCEPT !.ovl = @ + 1]
                    /\ pc' = "compose"
                    /\ UNCHANGED <<tmp, outcome>>
              [] OTHER ->
                    /\ obs' = [obs EXCEPT !.ovl = @ + 1, !.failed = "overlay"]
                    /\ Raise("overlay")
                    /\ UNCHANGED overlay
    /\ UNCHANGED <<cfg, payload, mp4_url, res, processed_url, meta, html, scraped, jvars>>

\* variant: only the existence of the output is tested
EncodeFailsNoExitCode(code, outExists) == ~outExists

\* compose_with_ffmpeg: `code != 0 or not os.path.exists(out_mp4)` raises
EncodeFails(code, outExists) == code # 0 \/ ~outExists

Compose ==
    /\ pc = "compose"
    /\ \E code \in {0, 1}, outExists \in BOOLEAN :
        IF EncodeFails(code, outExists)
        THEN /\ obs' = [obs EXCEPT !.enc = @ + 1, !.encCode = code,
                                   !.failed = "encode"]
             /\ Raise("encode")
        ELSE /\ obs' = [obs EXCEPT !.enc = @ + 1, !.encCode = code]
             /\ tmp' = IF outExists THEN WriteFile(tmp, OutName(payload), "encoder")
                        ELSE tmp
             /\ pc' = "upload"
             /\ UNCHANGED outcome
    /\ UNCHANGED <<cfg, payload, mp4_url, res, overlay, processed_url, meta,
                   html, scraped, jvars>>

----------------------------------------------------------------------------
(* s3_upload, ffprobe_meta, post_back_to_breeze and the final answer *)

S3_BUCKET == <<"bucket">>
AWS_REGION == <<"us-east-2">>
OUTPUT_PREFIX == <<"renders", "/">>

\* key = f"{OUTPUT_PREFIX.rstrip('/')}/{uid}_final.mp4"
OutputKey(p) == RStripSlash(OUTPUT_PREFIX) \o <<"/">> \o Uid(p).v \o <<"_final.mp4">>

PublicUrl(bucket, key) ==
    <<"https://">> \o bucket \o <<".s3.">> \o AWS_REGION \o <<".amazonaws.com/">> \o key

\* s3.generate_presigned_url("get_object", ..., ExpiresIn=ttl)
PresignedUrl(bucket, key, ttl) ==
    <<"https://">> \o bucket \o <<".s3.amazonaws.com/">> \o key
        \o <<"?X-Amz-Expires=", ToString(ttl), "&X-Amz-Signature=", "sig">>

BareUrl(bucket, key) == <<"s3://">> \o bucket \o <<"/">> \o key

\* the ExtraArgs of upload_file
UploadAcl(c) == IF c.MAKE_PUBLIC THEN "public-read" ELSE "none"

\* variant: the presign test placed before the public test
ChooseUrlPresignFirst(c, bucket, key) ==
    IF c.PRESIGN_TTL > 0 THEN PresignedUrl(bucket, key, c.PRESIGN_TTL)
    ELSE IF c.MAKE_PUBLIC THEN PublicUrl(bucket, key)
    ELSE BareUrl(bucket, key)

\* "Choose URL to return"
ChooseUrl(c, bucket, key) ==
    IF c.MAKE_PUBLIC THEN PublicUrl(bucket, key)
    ELSE IF c.PRESIGN_TTL > 0 THEN PresignedUrl(bucket, key, c.PRESIGN_TTL)
    ELSE BareUrl(bucket, key)

Upload ==
    /\ pc = "upload"
    /\ \E ok \in BOOLEAN :
        IF ok
        THEN /\ obs' = [obs EXCEPT !.up = @ + 1, !.acl = UploadAcl(cfg),
                                   !.upKey = OutputKey(payload)]
             /\ processed_url' = ChooseUrl(cfg, S3_BUCKET, OutputKey(payload))
             /\ pc' = "probe"
             /\ UNCHANGED <<tmp, outcome>>
        ELSE /\ obs' = [obs EXCEPT !.up = @ + 1, !.failed = "upload"]
             /\ Raise("upload")
             /\ UNCHANGED processed_url
    /\ UNCHANGED <<cfg, payload, mp4_url, res, overlay, meta, html, scraped, jvars>>

\* what running ffprobe can give: the tool cannot be started, exits non-zero,
\* prints something that is not JSON, or prints JSON with or without streams
ProbeRuns == {"no_tool", "nonzero", "not_json", "no_streams_key",
              "empty_streams", "stream", "stream_zero_den", "stream_bad_rate"}

\* variant: an empty streams list read like an absent streams key
ffprobe_metaLenient(run) ==
    CASE run \in {"no_tool", "nonzero", "not_json"} -> EmptyMeta
      [] run \in {"no_streams_key", "empty_streams"} ->
            [empty |-> FALSE, width |-> "None", height |-> "None", fps |-> "0.0"]
      [] run = "stream" ->
            [empty |-> FALSE, width |-> "1920", height |-> "1080", fps |-> "30.0"]
      [] OTHER ->
            [empty |-> FALSE, width |-> "1920", height |-> "1080", fps |-> "TARGET_FPS"]

\* ffprobe_meta(path)
ffprobe_meta(run) ==
    CASE run \in {"no_tool", "nonzero", "not_json", "empty_streams"} -> EmptyMeta
      [] run = "no_streams_key" ->
            [empty |-> FALSE, width |-> "None", height |-> "None", fps |-> "0.0"]
      [] run = "stream" ->
            [empty |-> FALSE, width |-> "1920", height |-> "1080", fps |-> "30.0"]
      [] OTHER ->
            [empty |-> FALSE, width |-> "1920", height |-> "1080", fps |-> "TARGET_FPS"]

\* meta = ffprobe_meta(out), the last statement of the with block
Probe ==
    /\ pc = "probe"
    /\ \E run \in ProbeRuns :
        /\ meta' = ffprobe_meta(run)
        /\ obs' = [obs EXCEPT !.probe = @ + 1, !.probeRun = run]
    /\ tmp' = ExitTmp(tmp, FALSE)
    /\ pc' = "callback"
    /\ UNCHANGED <<cfg, payload, mp4_url, res, overlay, processed_url, outcome,
                   html, scraped, jvars>>

\* not (POST_BACK_TO_BREEZE and BREEZE_UPLOAD_URL and BREEZE_API_KEY)
PostBackEnabled(c) ==
    c.POST_BACK_TO_BREEZE /\ c.BREEZE_UPLOAD_URL # "" /\ c.BREEZE_API_KEY # ""

StatusCodes == {199, 200, 204, 299, 300, 404, 500}

\* variant: redirects counted as success
PostStatusLoose(code) == IF 200 <= code /\ code <= 300 THEN "ok" ELSE "error"

\* ok = 200 <= r.status_code < 300
PostStatus(code) == IF 200 <= code /\ code < 300 THEN "ok" ELSE "error"

\* jsonify({"status": "ok", ..., "processed_url": processed_url, "breeze": breeze})
Ok(url, breeze) ==
    [NoOutcome EXCEPT !.code = 200, !.status = "ok", !.processed_url = url,
                      !.breeze = breeze]

\* breeze = post_back_to_breeze(...) if POST_BACK_TO_BREEZE else skipped,
\* then the JSON answer; obs.cbCode is the status code of the response, -1
\* when requests.post raised, 0 when nothing was posted
Callback ==
    /\ pc = "callback"
    /\ \/ /\ ~(cfg.POST_BACK_TO_BREEZE /\ PostBackEnabled(cfg))
          /\ outcome' = Ok(processed_url, "skipped")
          /\ UNCHANGED obs
       \/ /\ cfg.POST_BACK_TO_BREEZE /\ PostBackEnabled(cfg)
          /\ \E code \in StatusCodes :
                /\ outcome' = Ok(processed_url, PostStatus(code))
                /\ obs' = [obs EXCEPT !.cb = @ + 1, !.cbCode = code]
       \/ /\ cfg.POST_BACK_TO_BREEZE /\ PostBackEnabled(cfg)
          /\ outcome' = Ok(processed_url, "error")
          /\ obs' = [obs EXCEPT !.cb = @ + 1, !.cbCode = -1]
    /\ pc' = "done"
    /\ UNCHANGED <<cfg, payload, mp4_url, res, tmp, overlay, processed_url, meta,
                   html, scraped, jvars>>

----------------------------------------------------------------------------
(* The webhook as a state machine *)

Next ==
    \/ Receive
    \/ PageMedia
    \/ PageImage
    \/ ResolveTryOrig
    \/ ResolveTryAlt
    \/ ResolveSleep
    \/ Vendor
    \/ Check
    \/ Download
    \/ Overlay
    \/ Compose
    \/ Upload
    \/ Probe
    \/ Callback

Spec == Init /\ [][Next]_vars

----------------------------------------------------------------------------
(* _scrape_mp4_from_html on its own: every document of Pages is scraped *)

InitScrape ==
    /\ cfg = DefaultConfig
    /\ payload = [id |-> None, eventkitesessionid |-> None, mp4_url |-> None,
                  media_url |-> None, image_url |-> None, url |-> None,
                  data |-> <<>>]
    /\ pc = "scrape"
    /\ mp4_url = None
    /\ res = NoRes
    /\ tmp = NoTmp
    /\ overlay = None
    /\ processed_url = <<>>
    /\ meta = EmptyMeta
    /\ outcome = NoOutcome
    /\ obs = NoObs
    /\ html \in {[kinds |-> ks, text |-> RenderAll(ks)] : ks \in KindSeqs}
    /\ scraped = None
    /\ jobs = NoJobs /\ fs = NoFs /\ obtained = 0

Scrape ==
    /\ pc = "scrape"
    /\ scraped' = scrape_mp4_from_html(html.text)
    /\ pc' = "scraped"
    /\ UNCHANGED <<cfg, payload, mp4_url, res, tmp, overlay, processed_url, meta,
                   outcome, obs, html, jvars>>

NextScrape == Scrape

SpecScrape == InitScrape /\ [][NextScrape]_vars

----------------------------------------------------------------------------
(* Several requests served side by side by one process: the with block of
   webhook for each of them, over one temp area *)

Jobs == 1..NJobs

\* the directory names mkdtemp can draw
Dirs == 1..(NJobs + 1)

\* variant: mkdtemp may hand out a directory that is in use
AnyDirs(f) == Dirs

\* tempfile.TemporaryDirectory(): a directory that does not exist yet
FreshDirs(f) == Dirs \ f.dirs

\* cleanup of the TemporaryDirectory: the directory and all its files
RemoveDir(f, d) ==
    [dirs |-> f.dirs \ {d}, files |-> {x \in f.files : x.dir # d}]

\* open(path, "wb") / download_file: the file is there, not yet complete
BeginWrite(f, d, name) ==
    [f EXCEPT !.files = {x \in @ : ~(x.dir = d /\ x.name = name)}
                            \cup {[dir |-> d, name |-> name, state |-> "partial"]}]

\* the writer closed the file
EndWrite(f, d, name) ==
    [f EXCEPT !.files = {x \in @ : ~(x.dir = d /\ x.name = name)}
                            \cup {[dir |-> d, name |-> name, state |-> "complete"]}]

\* what a reader of (d, name) finds
FileState(f, d, name) ==
    IF \E x \in f.files : x.dir = d /\ x.name = name
    THEN (CHOOSE x \in f.files : x.dir = d /\ x.name = name).state
    ELSE "absent"

\* with tempfile.TemporaryDirectory() as tmp:
JStart(j) ==
    /\ jobs[j].pc = "idle"
    /\ \E d \in FreshDirs(fs) :
        /\ jobs' = [jobs EXCEPT ![j] = [@ EXCEPT !.pc = "download", !.dir = d,
                                                 !.afterObtained = obtained > 0]]
        /\ fs' = [fs EXCEPT !.dirs = @ \cup {d}]
    /\ UNCHANGED obtained

\* an exception leaves the with block of request j
JRaise(j) ==
    /\ jobs' = [jobs EXCEPT ![j] = [@ EXCEPT !.pc = "done"]]
    /\ fs' = RemoveDir(fs, jobs[j].dir)

\* _download(mp4_url, src)
JDownload(j) ==
    /\ jobs[j].pc = "download"
    /\ \E ok \in BOOLEAN :
        IF ok
        THEN /\ fs' = EndWrite(fs, jobs[j].dir, SourceName)
             /\ jobs' = [jobs EXCEPT ![j] = [@ EXCEPT !.pc = "overlay"]]
        ELSE JRaise(j)
    /\ UNCHANGED obtained

\* maybe_download_overlay(tmp) up to the start of s3.download_file
JOverlayBegin(j) ==
    /\ jobs[j].pc = "overlay"
    /\ IF cfg.OVERLAY_S3_KEY = <<>>
       THEN /\ jobs' = [jobs EXCEPT ![j] = [@ EXCEPT !.pc = "compose"]]
            /\ UNCHANGED fs
       ELSE /\ jobs' = [jobs EXCEPT ![j] = [@ EXCEPT !.pc = "overlay_writing",
                                                      !.fetches = @ + 1]]
            /\ fs' = BeginWrite(fs, jobs[j].dir, Basename(cfg.OVERLAY_S3_KEY))
    /\ UNCHANGED obtained

\* s3.download_file returns or raises; maybe_download_overlay returns
JOverlayEnd(j) ==
    /\ jobs[j].pc = "overlay_writing"
    /\ \E r \in {"ok", "client_error", "other_error"} :
        CASE r = "ok" ->
                /\ fs' = EndWrite(fs, jobs[j].dir, Basename(cfg.OVERLAY_S3_KEY))
                /\ jobs' = [jobs EXCEPT ![j] =
                                [@ EXCEPT !.pc = "compose",
                                          !.overlay = Str(Basename(cfg.OVERLAY_S3_KEY))]]
                /\ obtained' = obtained + 1
          [] r = "client_error" ->
                /\ jobs' = [jobs EXCEPT ![j] = [@ EXCEPT !.pc = "compose"]]
                /\ UNCHANGED <<fs, obtained>>
          [] OTHER ->
                /\ JRaise(j)
                /\ UNCHANGED obtained

\* compose_with_ffmpeg: ffmpeg opens its inputs
JComposeBegin(j) ==
    /\ jobs[j].pc = "compose"
    /\ jobs' = [jobs EXCEPT ![j] =
                    [@ EXCEPT !.pc = "composing",
                              !.read = IF Truthy(jobs[j].overlay)
                                       THEN FileState(fs, jobs[j].dir, jobs[j].overlay.v)
                                       ELSE "none"]]
    /\ UNCHANGED <<fs, obtained>>

\* compose_with_ffmpeg: ffmpeg exits
JComposeEnd(j) ==
    /\ jobs[j].pc = "composing"
    /\ \E code \in {0, 1}, outExists \in BOOLEAN :
        IF EncodeFails(code, outExists)
        THEN JRaise(j)
        ELSE /\ fs' = EndWrite(fs, jobs[j].dir, OutName(payload))
             /\ jobs' = [jobs EXCEPT ![j] = [@ EXCEPT !.pc = "upload"]]
    /\ UNCHANGED obtained

\* s3_upload, ffprobe_meta and the end of the with block
JFinish(j) ==
    /\ jobs[j].pc = "upload"
    /\ jobs' = [jobs EXCEPT ![j] = [@ EXCEPT !.pc = "done"]]
    /\ fs' = RemoveDir(fs, jobs[j].dir)
    /\ UNCHANGED obtained

InitJobs ==
    /\ cfg \in {c \in Configs : /\ c.OVERLAY_S3_KEY # <<>>
                                /\ ~c.MAKE_PUBLIC /\ c.PRESIGN_TTL = 43200
                                /\ ~c.POST_BACK_TO_BREEZE
                                /\ c.BREEZE_UPLOAD_URL = "" /\ c.BREEZE_API_KEY = ""
                                /\ c.BREEZE_ASSETS_URL_TEMPLATE = NoTemplate}
    /\ payload \in {p \in Payloads : SourceKeys(p) = {"mp4_url"} /\ Truthy(DirectKey(p))
                                     /\ p.eventkitesessionid = None
                                     /\ p.id # Str(<<>>)}
    /\ pc = "jobs"
    /\ mp4_url = None
    /\ res = NoRes
    /\ tmp = NoTmp
    /\ overlay = None
    /\ processed_url = <<>>
    /\ meta = EmptyMeta
    /\ outcome = NoOutcome
    /\ obs = NoObs
    /\ html = NoHtml
    /\ scraped = None
    /\ jobs = NoJobs /\ fs = NoFs /\ obtained = 0

JUnchanged ==
    UNCHANGED <<cfg, payload, pc, mp4_url, res, tmp, overlay, processed_url, meta,
                outcome, obs, html, scraped>>

NextJobs ==
    \/ \E j \in Jobs : JStart(j) /\ JUnchanged
    \/ \E j \in Jobs : JDownload(j) /\ JUnchanged
    \/ \E j \in Jobs : JOverlayBegin(j) /\ JUnchanged
    \/ \E j \in Jobs : JOverlayEnd(j) /\ JUnchanged
    \/ \E j \in Jobs : JComposeBegin(j) /\ JUnchanged
    \/ \E j \in Jobs : JComposeEnd(j) /\ JUnchanged
    \/ \E j \in Jobs : JFinish(j) /\ JUnchanged

SpecJobs == InitJobs /\ [][NextJobs]_vars

----------------------------------------------------------------------------
(* Properties *)

IsPublicForm(u) ==
    /\ u # <<>> /\ u[1] = "https://"
    /\ Contains(u, ".amazonaws.com/")
    /\ ~Contains(u, "&X-Amz-Signature=")
IsPresignedForm(u) == u # <<>> /\ u[1] = "https://" /\ Contains(u, "&X-Amz-Signature=")
IsBareForm(u) == u # <<>> /\ u[1] = "s3://"

Published == processed_url # <<>>

\* C1 as stated: publish returns the public URL (with the public-read grant)
\* when public access is on, else a presigned URL when the TTL is non-zero,
\* else the bare s3:// identifier.
C1_Original ==
    Published =>
        /\ cfg.MAKE_PUBLIC => IsPublicForm(processed_url) /\ obs.acl = "public-read"
        /\ ~cfg.MAKE_PUBLIC /\ cfg.PRESIGN_TTL # 0 => IsPresignedForm(processed_url)
        /\ ~cfg.MAKE_PUBLIC /\ cfg.PRESIGN_TTL = 0 => IsBareForm(processed_url)

\* C1 amended: publish returns the public URL (with the public-read grant)
\* when public access is on, else a presigned URL when the TTL is positive,
\* else (TTL zero or negative) the bare s3:// identifier; a presigned URL is
\* never returned while public access is on.
C1_UrlPrecedence ==
    Published =>
        /\ cfg.MAKE_PUBLIC => IsPublicForm(processed_url) /\ obs.acl = "public-read"
        /\ cfg.MAKE_PUBLIC => ~IsPresignedForm(processed_url)
        /\ ~cfg.MAKE_PUBLIC /\ cfg.PRESIGN_TTL > 0 => IsPresignedForm(processed_url)
        /\ ~cfg.MAKE_PUBLIC /\ cfg.PRESIGN_TTL <= 0 => IsBareForm(processed_url)

C1_Witness ==
    /\ Published
    /\ cfg.MAKE_PUBLIC /\ cfg.PRESIGN_TTL > 0
    /\ IsPublicForm(processed_url)

\* C2 as stated: a job for which the direct key, page resolution and the
\* vendor lookup gave no URL ends with the 200 answer "ignored" and has made
\* no asset download, overlay download, encode, upload or callback.
C2_IgnoredWhenNoSource ==
    (pc = "done" /\ ~Truthy(mp4_url)) =>
        /\ outcome.code = 200 /\ outcome.status = "ignored"
        /\ obs.dl = 0 /\ obs.ovl = 0 /\ obs.enc = 0 /\ obs.up = 0 /\ obs.cb = 0
        /\ ~tmp.created

\* C3 as stated: the asset fetch fails only after 3 failed attempts, and a
\* fetch that succeeds after k failures has made exactly k+1 attempts.
C3_RetryUpToN ==
    /\ obs.failed = "download" => obs.dl = 3 /\ obs.dlFail = 3
    /\ pc \in {"overlay", "compose", "upload", "probe", "callback"} =>
            obs.dl = obs.dlFail + 1 /\ obs.dl <= 3

\* C4 as stated: a job that found a source URL and then failed in the asset
\* download, the encode or the upload ends with an explicit failure outcome
\* that carries a reason code.
C4_ExplicitFailure ==
    (pc = "done" /\ obs.failed \in {"download", "encode", "upload"}) =>
        /\ outcome.status \notin {"ok", "ignored", "none"}
        /\ outcome.reason # "none"

\* C5: a job that created its working directory never ends with the
\* directory still there; the directory exists only while the job is between
\* the asset download and the probe.
C5_WorkdirRemoved ==
    /\ pc = "done" /\ tmp.created => ~tmp.exists
    /\ tmp.exists => pc \in {"download", "overlay", "compose", "upload", "probe"}

C5_Witness ==
    /\ pc = "done" /\ tmp.created /\ ~tmp.exists
    /\ obs.failed = "encode"

\* C6: once the artifact is published the job ends with status "ok" and the
\* published URL whatever the callback does; the callback field is "skipped"
\* when the callback is not enabled with endpoint and credential (and then
\* nothing is posted), "ok" for a 2xx response and "error" otherwise.
C6_CallbackNeverFails ==
    (pc = "done" /\ Published) =>
        /\ outcome.code = 200 /\ outcome.status = "ok"
        /\ outcome.processed_url = processed_url
        /\ LET enabled == /\ cfg.POST_BACK_TO_BREEZE
                          /\ cfg.BREEZE_UPLOAD_URL # ""
                          /\ cfg.BREEZE_API_KEY # ""
           IN  /\ ~enabled => outcome.breeze = "skipped" /\ obs.cb = 0
               /\ enabled => obs.cb = 1
               /\ enabled /\ obs.cbCode \in 200..299 => outcome.breeze = "ok"
               /\ enabled /\ obs.cbCode \notin 200..299 => outcome.breeze = "error"

C6_Witness ==
    /\ pc = "done" /\ Published /\ outcome.status = "ok"
    /\ obs.cb = 1 /\ obs.cbCode = 300 /\ outcome.breeze = "error"

\* the well-known top-level keys holding a string that ends in .mp4
DirectStrings(p) ==
    {p[k] : k \in {k \in {"mp4_url", "url", "media_url"} :
                        IsStr(p[k]) /\ EndsWith(p[k].v, ".mp4")}}

\* C7 as stated: a payload with a string ending in .mp4 under a well-known
\* top-level key (mp4_url, url, media_url) leads to the download of exactly
\* that string, whatever the network fetches return.
C7_DirectUnchanged ==
    (pc = "done" /\ obs.failed # "lookup" /\ DirectStrings(payload) # {}) =>
        obs.dl >= 1 /\ obs.dlUrl \in DirectStrings(payload)

\* C8 as stated: a payload whose only media URL is nested inside a container
\* key is not ignored: the job downloads the nested URL.
C8_NestedFound ==
    (pc = "done" /\ obs.failed # "lookup" /\ SourceKeys(payload) = {"data"}) =>
        /\ outcome.status # "ignored"
        /\ obs.dl >= 1 /\ obs.dlUrl = Str(NestedMp4)

\* C9: page resolution never raises and is bounded: at most RESOLVE_TRIES
\* attempts of at most two fetches each, one sleep between consecutive
\* attempts and none after the last, a return at the first fetch that gives
\* a media URL, and None exactly when no fetch of any attempt gave one.
C9_ResolverBounded ==
    /\ res.attempt <= RESOLVE_TRIES
    /\ res.inAttempt <= 2
    /\ res.fetches <= 2 * res.attempt
    /\ res.attempt >= 1 => res.sleeps = res.attempt - 1
    /\ res.lastSleepAt < RESOLVE_TRIES
    /\ res.hits <= 1
    /\ res.hits = 1 => res.returned /\ Truthy(res.result)
    /\ res.returned => (res.result = None <=> res.hits = 0)
    /\ res.returned /\ res.result = None => res.attempt = RESOLVE_TRIES
    /\ res.returned => pc \in {"page_image", "vendor"} /\ mp4_url = res.result
    /\ outcome.code = 500 => obs.failed # "none"

C9_Witness ==
    /\ res.returned /\ res.result = None
    /\ res.fetches = 2 * RESOLVE_TRIES
    /\ res.sleeps = RESOLVE_TRIES - 1

\* the candidate the stated kind order selects: src, then href, then og, then
\* a URL only the raw scan finds
ByKindOrder(ks) ==
    IF Contains(ks, "src") THEN Str(SrcUrl)
    ELSE IF Contains(ks, "href") THEN Str(HrefUrl)
    ELSE IF Contains(ks, "og") THEN Str(OgUrl)
    ELSE Str(RawUrl)

\* C10 as stated: on a page with candidates of several kinds the result is
\* chosen by kind (src over href over og:video over the raw scan), not by
\* position; a page with only an og:video tag gives the tag's content.
C10_KindOrder ==
    (pc = "scraped"
        /\ Cardinality({k \in {"src", "href", "og"} : Contains(html.kinds, k)}) >= 1
        /\ ~Contains(html.kinds, "raw") /\ ~Contains(html.kinds, "json")) =>
            scraped = ByKindOrder(html.kinds)

\* C13 as stated: with an overlay key configured, a job whose overlay
\* download failed does not encode, does not upload and does not end with
\* status "ok".
C13_OverlayFailureFailsJob ==
    (cfg.OVERLAY_S3_KEY # <<>> /\ obs.ovl = 1 /\ overlay = None) =>
        /\ obs.enc = 0 /\ obs.up = 0
        /\ outcome.status # "ok"

\* the probe runs that are failures: the tool cannot be started or exits
\* non-zero, its output is not JSON, or the output has no stream entry
ProbeFailures == {"no_tool", "nonzero", "not_json", "no_streams_key", "empty_streams"}

\* C14 as stated: the probe never raises and returns the empty result for
\* every failure, the absent streams key included; a failed probe leaves the
\* published job on its way to the answer "ok".
C14_Original ==
    obs.probe = 1 =>
        /\ obs.failed = "none" /\ pc \in {"callback", "done"}
        /\ pc = "done" => outcome.code = 200 /\ outcome.status = "ok"
        /\ obs.probeRun \in ProbeFailures => meta = EmptyMeta

\* C14 amended: the probe never raises; it returns the empty result when the
\* tool cannot be started or exits non-zero, when its output is not JSON and
\* when the streams list is empty; when the streams key is absent it returns
\* width None, height None and fps 0.0; a failed probe leaves the published
\* job on its way to the answer "ok".
C14_ProbeNeverFails ==
    obs.probe = 1 =>
        /\ obs.failed = "none" /\ pc \in {"callback", "done"}
        /\ pc = "done" => outcome.code = 200 /\ outcome.status = "ok"
        /\ obs.probeRun \in ProbeFailures \ {"no_streams_key"} => meta = EmptyMeta
        /\ obs.probeRun = "no_streams_key" =>
                meta = [empty |-> FALSE, width |-> "None", height |-> "None",
                        fps |-> "0.0"]

C14_Witness ==
    /\ pc = "done" /\ outcome.status = "ok" /\ Published
    /\ obs.probeRun = "empty_streams" /\ meta = EmptyMeta

\* C16 as stated: in every attempt of the page resolution of a URL ending in
\* /location, an attempt ends without a media URL only after the stripped URL
\* was fetched too (two fetches in the attempt), whether the original URL
\* gave no match or its fetch failed; for a URL without the suffix an
\* attempt makes one fetch only.
C16_LocationFallback ==
    LET attemptFailed == \/ pc = "resolve" /\ res.stage = "sleep"
                         \/ res.returned /\ res.result = None
    IN  /\ attemptFailed /\ HasLocationSuffix(res.url) => res.inAttempt = 2
        /\ res.url # <<>> /\ ~HasLocationSuffix(res.url) => res.inAttempt <= 1

\* the first URL the chain obtained: the direct key, else the hit of page
\* resolution, else the result of the vendor lookup
FirstObtained ==
    IF Truthy(DirectKey(payload)) THEN DirectKey(payload)
    ELSE IF Truthy(obs.page) THEN obs.page
    ELSE obs.api

\* C17: the source is resolved by the chain direct key, page resolution,
\* vendor lookup: a page is resolved only while the direct key and every
\* earlier page resolution gave nothing, the vendor request is issued at
\* most once and only when the direct key and page resolution gave nothing
\* and template, credential and session id are all set, and the URL held
\* and downloaded is the first one obtained.
C17_FirstMatchWins ==
    /\ pc = "resolve" =>
            ~Truthy(DirectKey(payload)) /\ obs.page = None /\ obs.vendor = 0
    /\ obs.vendor >= 1 =>
            /\ obs.vendor = 1
            /\ ~Truthy(DirectKey(payload)) /\ obs.page = None
            /\ cfg.BREEZE_ASSETS_URL_TEMPLATE # <<>>
            /\ cfg.BREEZE_API_KEY # ""
            /\ payload.eventkitesessionid # None
    /\ Truthy(mp4_url) => mp4_url = FirstObtained
    /\ obs.dl >= 1 => Truthy(FirstObtained) /\ obs.dlUrl = FirstObtained

C17_Witness ==
    /\ obs.dl = 1 /\ obs.dlUrl = obs.page /\ Truthy(obs.page)
    /\ IsStr(payload.image_url) /\ IsStr(payload.media_url)
    /\ LookupConfigured(cfg, payload.eventkitesessionid)
    /\ obs.vendor = 0

\* C18 as stated: the vendor lookup never raises, whatever the template and
\* the response: a job whose lookup was called and gave no URL ends with the
\* 200 answer "ignored", never as a failed job.
C18_LookupNeverRaises ==
    /\ obs.failed # "lookup"
    /\ (/\ pc = "done" /\ ~Truthy(mp4_url)
        /\ LookupConfigured(cfg, payload.eventkitesessionid)) =>
            outcome.code = 200 /\ outcome.status = "ignored"

\* the id as stated: the id key when present, else the session id when
\* present, else the generated value
IdWhenPresent(p) ==
    IF p.id # None THEN p.id
    ELSE IF p.eventkitesessionid # None THEN p.eventkitesessionid
    ELSE Str(<<"1700000000">>)

\* the id by the first key that is present and not empty
IdWhenNonEmpty(p) ==
    IF p.id \notin {None, Str(<<>>)} THEN p.id
    ELSE IF p.eventkitesessionid \notin {None, Str(<<>>)} THEN p.eventkitesessionid
    ELSE Str(<<"1700000000">>)

C20_SourceUntouched ==
    pc = "compose" =>
        /\ [name |-> SourceName, by |-> "asset"] \in tmp.files
        /\ Truthy(overlay) =>
                overlay.v # SourceName /\ overlay.v # OutName(payload)

\* C11 as stated: with an overlay configured the process downloads the
\* overlay at most once, and a request that starts after another request
\* obtained the overlay makes no overlay download.
C11_OverlayFetchedOnce ==
    /\ obtained <= 1
    /\ \A j \in Jobs : jobs[j].afterObtained => jobs[j].fetches = 0

\* C12: whatever the interleaving of the requests, the overlay handed to the
\* encoder is a complete file: while a request encodes with an overlay, that
\* file is completely written and no request is writing it, and the encoder
\* never opened a partial or missing overlay.
C12_NoPartialOverlay ==
    \A j \in Jobs :
        /\ jobs[j].read \in {"none", "complete"}
        /\ (jobs[j].pc \in {"compose", "composing"} /\ Truthy(jobs[j].overlay)) =>
                /\ FileState(fs, jobs[j].dir, jobs[j].overlay.v) = "complete"
                /\ \A k \in Jobs :
                        jobs[k].pc = "overlay_writing" => jobs[k].dir # jobs[j].dir

C12_Witness ==
    \E j, k \in Jobs :
        /\ jobs[j].pc = "composing" /\ jobs[j].read = "complete"
        /\ jobs[k].pc = "overlay_writing"
        /\ FileState(fs, jobs[k].dir, Basename(cfg.OVERLAY_S3_KEY)) = "partial"

====
